---- MODULE Spec2Model ----
(***************************************************************************)
(* GhostClient (packages/python/ghost_sdk/client.py): the shielded ledger  *)
(* kept by one client object.  self.commitments is an insertion-ordered    *)
(* dict of open commitments keyed by the hex of the commitment digest,     *)
(* self.nullifiers is the set of hex nullifier digests already spent.      *)
(* Every coroutine of the client runs without suspension (no await in it   *)
(* reaches the event loop), so each call is one atomic action.             *)
(*                                                                         *)
(* sha256 is modelled as a collision-free digest constructor over the      *)
(* exact byte string the code hashes; bytes.hex() as an injective string   *)
(* encoding of the digest.                                                 *)
(***************************************************************************)
EXTENDS Integers, Sequences, FiniteSets, TLC

(* ---------------------------------------------------------------- bounds *)
\* most open commitments held at once in the explored runs
MaxOpen == 3
\* cap on the private balance in the explored runs (keeps sums in TLC's integers)
MaxBalance == 2000000000

(* ---------------------------------------------------------------- inputs *)
\* amounts passed to deposit: a negative one, zero, and the two of the README example
DepositAmounts == {-1, 0, 500000000, 1000000000}
\* amounts passed to withdraw / private_transfer / generate_balance_proof
RequestAmounts == {500000000, 1000000000, 1500000000}
\* outcomes of nacl.utils.random(32): the draw may repeat
Nonces == {"nonce_a", "nonce_b"}
Recipients == {"TARGET_ADDRESS"}
Memos == {"None", "", "Coffee"}

\* coroutines that call withdraw / private_transfer on the one client
Tasks == {"task_a", "task_b"}

VARIABLES commitments, nullifiers, result, consumed, tasks, prev

vars == <<commitments, nullifiers, result, consumed, tasks, prev>>

(* ------------------------------------------------------ bytes and hashes *)
\* bytes(self.private_key): fixed at construction
private_key == "signing_key_bytes"

\* self.public_key.encode(encoder=HexEncoder).decode()
get_ghost_identifier == "verify_key_hex"

RECURSIVE to_bytes_little(_, _)
\* int.to_bytes(length, 'little') of a value that fits
to_bytes_little(n, length) ==
    IF length = 0 THEN << >>
    ELSE <<n % 256>> \o to_bytes_little(n \div 256, length - 1)

RECURSIVE ShiftedOut(_, _)
ShiftedOut(n, length) ==
    IF length = 0 THEN n ELSE ShiftedOut(n \div 256, length - 1)

\* int.to_bytes raises OverflowError for a negative int or one too big for length bytes
to_bytes_overflows(n, length) == n < 0 \/ ShiftedOut(n, length) # 0

\* hashlib.sha256(data).digest(), collision-free
sha256_digest(data) == [sha256 |-> data]

\* bytes.hex()
hex(b) == [hex |-> b]

(* ----------------------------------------------------- pure computations *)
\* generate_commitment(amount, recipient, nonce) for an amount that fits 8 bytes
generate_commitment(amount, recipient, nonce) ==
    [value  |-> sha256_digest(<<recipient>> \o to_bytes_little(amount, 8) \o <<nonce>>),
     nonce  |-> nonce,
     amount |-> amount]

\* a nullifier that also binds the amount field of the commitment dict
generate_nullifier_of_amount(commitment) ==
    [value      |-> sha256_digest(<<commitment.value, commitment.amount, private_key>>),
     commitment |-> commitment.value]

\* generate_nullifier(commitment)
generate_nullifier(commitment) ==
    [value      |-> sha256_digest(<<commitment.value, private_key>>),
     commitment |-> commitment.value]

(* ------------------------------------------------- the ordered dictionary *)
\* self.commitments is a sequence of <<key, commitment>> items in insertion order
Keys(cs) == {cs[i][1] : i \in 1..Len(cs)}

Values(cs) == [i \in 1..Len(cs) |-> cs[i][2]]

\* d[key] = c : an existing key keeps its position, a new key goes last
DictSet(cs, key, c) ==
    IF key \in Keys(cs)
    THEN [i \in 1..Len(cs) |-> IF cs[i][1] = key THEN <<key, c>> ELSE cs[i]]
    ELSE Append(cs, <<key, c>>)

\* a deletion of the oldest item instead of the item under key
DictDelOldest(cs, key) == IF cs = << >> THEN cs ELSE Tail(cs)

\* del d[key]
DictDel(cs, key) == SelectSeq(cs, LAMBDA item : item[1] # key)

RECURSIVE SumAmounts(_)
SumAmounts(s) == IF s = << >> THEN 0 ELSE Head(s).amount + SumAmounts(Tail(s))

\* get_private_balance: sum of the amounts of the open commitments
get_private_balance(cs) == SumAmounts(Values(cs))

(* -------------------------------------------------------------- withdraw *)
\* a filter that lets every recorded commitment through
CoversAnyRequest(c, amount) == c.amount >= 0 \/ amount >= 0

\* the generator's filter: c['amount'] >= amount
Covers(c, amount) == c.amount >= amount

\* a scan that skips the commitments whose nullifier is already recorded
FirstFitUnspent(cs, amount) ==
    LET fit == {i \in 1..Len(cs) :
                   /\ cs[i][2].amount >= amount
                   /\ hex(generate_nullifier(cs[i][2]).value) \notin nullifiers}
    IN  IF fit = {} THEN 0 ELSE CHOOSE i \in fit : \A j \in fit : i <= j

\* a scan that returns the last commitment that covers the amount
LastFit(cs, amount) ==
    LET fit == {i \in 1..Len(cs) : Covers(cs[i][2], amount)}
    IN  IF fit = {} THEN 0 ELSE CHOOSE i \in fit : \A j \in fit : i >= j

\* a scan that returns the smallest commitment that covers the amount
BestFit(cs, amount) ==
    LET fit == {i \in 1..Len(cs) : Covers(cs[i][2], amount)}
    IN  IF fit = {} THEN 0
        ELSE CHOOSE i \in fit : \A j \in fit :
                 \/ cs[i][2].amount < cs[j][2].amount
                 \/ cs[i][2].amount = cs[j][2].amount /\ i <= j

\* index of the commitment next(...) returns, 0 for None
FirstFit(cs, amount) ==
    LET fit == {i \in 1..Len(cs) : Covers(cs[i][2], amount)}
    IN  IF fit = {} THEN 0 ELSE CHOOSE i \in fit : \A j \in fit : i <= j

\* a spent check that never finds the key
IsSpentNever(nullifier_key, nulls) == nullifier_key \in (nulls \ {nullifier_key})

\* nullifier_key in self.nullifiers
IsSpent(nullifier_key, nulls) == nullifier_key \in nulls

\* an assignment of a fresh set instead of an add
MarkSpentOnly(nulls, nullifier_key) == {nullifier_key}

\* self.nullifiers.add(nullifier_key)
MarkSpent(nulls, nullifier_key) == nulls \cup {nullifier_key}

(* ------------------------------------------------------------------ Init *)
Init ==
    /\ commitments = << >>
    /\ nullifiers = {}
    /\ result = [op |-> "init", status |-> "ok"]
    /\ consumed = {}
    /\ tasks = [t \in Tasks |-> [pc |-> "idle"]]
    /\ prev = [op |-> "none"]

(* --------------------------------------------------------------- actions *)
\* deposit(amount), the nonce being the draw of nacl.utils.random(32)
Deposit(amount, nonce) ==
    IF to_bytes_overflows(amount, 8)
    THEN /\ result' = [op |-> "deposit", amount |-> amount, status |-> "OverflowError"]
         /\ UNCHANGED <<commitments, nullifiers, consumed, tasks, prev>>
    ELSE LET commitment == generate_commitment(amount, get_ghost_identifier, nonce)
             commitment_key == hex(commitment.value)
             after == DictSet(commitments, commitment_key, commitment)
         IN  /\ Len(after) <= MaxOpen
             /\ \/ commitment_key \in Keys(commitments)
                \/ get_private_balance(commitments) <= MaxBalance - amount
             /\ commitments' = after
             /\ result' = [op |-> "deposit", amount |-> amount, status |-> "ok"]
             /\ UNCHANGED <<nullifiers, consumed, tasks, prev>>

\* what a call of withdraw, or of private_transfer through it, hands back:
\* the call with "ok" for the returned signature or with the ValueError's text
Returned(call, status) ==
    IF call.op = "private_transfer"
    THEN [op |-> call.op, amount |-> call.amount, memo |-> call.memo, status |-> status]
    ELSE [op |-> call.op, amount |-> call.amount, status |-> status]

\* the body of withdraw(amount, recipient); call names the entry point the
\* outcome is returned through and its arguments
WithdrawBody(call, amount, recipient) ==
    LET i == FirstFit(commitments, amount)
    IN  IF i = 0
        THEN /\ result' = Returned(call, "Insufficient balance")
             /\ UNCHANGED <<commitments, nullifiers, consumed, tasks, prev>>
        ELSE LET commitment == commitments[i][2]
                 nullifier == generate_nullifier(commitment)
                 nullifier_key == hex(nullifier.value)
             IN  IF IsSpent(nullifier_key, nullifiers)
                 THEN /\ result' = Returned(call, "Commitment already spent")
                      /\ UNCHANGED <<commitments, nullifiers, consumed, tasks, prev>>
                 ELSE /\ nullifiers' = MarkSpent(nullifiers, nullifier_key)
                      /\ commitments' = DictDel(commitments, hex(commitment.value))
                      /\ consumed' = consumed \cup {hex(commitment.value)}
                      /\ result' = Returned(call, "ok")
                      /\ UNCHANGED <<tasks, prev>>

\* withdraw(amount, recipient)
Withdraw(amount, recipient) ==
    WithdrawBody([op |-> "withdraw", amount |-> amount], amount, recipient)

\* a private_transfer that withdraws only under its "if memo:" test
PrivateTransferIfMemo(recipient, amount, memo) ==
    IF memo \in {"None", ""}
    THEN /\ result' = [op |-> "private_transfer", amount |-> amount, memo |-> memo,
                       status |-> "Insufficient balance"]
         /\ UNCHANGED <<commitments, nullifiers, consumed, tasks, prev>>
    ELSE WithdrawBody([op |-> "private_transfer", amount |-> amount, memo |-> memo],
                      amount, recipient)

\* private_transfer(recipient, amount, memo): prints, then returns withdraw's result
PrivateTransfer(recipient, amount, memo) ==
    WithdrawBody([op |-> "private_transfer", amount |-> amount, memo |-> memo],
                 amount, recipient)

\* get_private_balance()
GetPrivateBalance ==
    /\ result' = [op |-> "get_private_balance", status |-> "ok",
                  value |-> get_private_balance(commitments)]
    /\ UNCHANGED <<commitments, nullifiers, consumed, tasks, prev>>

\* a threshold test that also refuses a balance equal to the minimum
BalanceAtOrBelow(actual_balance, min_balance) == actual_balance <= min_balance

\* actual_balance < min_balance
BalanceBelow(actual_balance, min_balance) == actual_balance < min_balance

\* generate_balance_proof(min_balance)
GenerateBalanceProof(min_balance) ==
    LET actual_balance == get_private_balance(commitments)
    IN  /\ result' = IF BalanceBelow(actual_balance, min_balance)
                     THEN [op |-> "generate_balance_proof", amount |-> min_balance,
                           status |-> "Insufficient balance"]
                     ELSE [op |-> "generate_balance_proof", amount |-> min_balance,
                           status |-> "ok", proof |-> "proof_data",
                           public_signals |-> <<min_balance>>]
        /\ UNCHANGED <<commitments, nullifiers, consumed, tasks, prev>>

\* thresholds asked of generate_balance_proof: the request amounts, the balance
\* itself and the balance plus one
ProofRequests(cs) ==
    RequestAmounts \cup {get_private_balance(cs), get_private_balance(cs) + 1}

Next ==
    \/ \E amount \in DepositAmounts, nonce \in Nonces : Deposit(amount, nonce)
    \/ \E amount \in RequestAmounts, recipient \in Recipients : Withdraw(amount, recipient)
    \/ \E amount \in RequestAmounts, recipient \in Recipients, memo \in Memos :
           PrivateTransfer(recipient, amount, memo)
    \/ GetPrivateBalance
    \/ \E min_balance \in ProofRequests(commitments) : GenerateBalanceProof(min_balance)

Spec == Init /\ [][Next]_vars

(* ------------------------------------------ the compute calls on their own *)
\* inputs of the compute calls
ComputeAmounts == {-1, 500000000}
ComputeRecipients == {get_ghost_identifier, "TARGET_ADDRESS"}
ComputeNonces == Nonces \cup {"None"}

\* commitment dicts handed to generate_nullifier: the value of a deposit of
\* 500_000_000 with any amount and nonce fields beside it
CommitmentDicts ==
    {[value  |-> generate_commitment(500000000, get_ghost_identifier, n).value,
      nonce  |-> m,
      amount |-> a] : n \in Nonces, m \in Nonces, a \in {500000000, 1000000000}}

\* a generate_commitment that stores what it computed
GenerateCommitmentRecording(amount, recipient, nonce, draw) ==
    LET used == IF nonce = "None" THEN draw ELSE nonce
    IN  /\ ~to_bytes_overflows(amount, 8)
        /\ LET commitment == generate_commitment(amount, recipient, used)
           IN  /\ commitments' = DictSet(commitments, hex(commitment.value), commitment)
               /\ Len(commitments') <= MaxOpen
               /\ result' = [op |-> "generate_commitment", amount |-> amount,
                             recipient |-> recipient, nonce |-> nonce,
                             status |-> "ok", value |-> commitment]
        /\ UNCHANGED <<nullifiers, consumed, tasks, prev>>

\* generate_commitment(amount, recipient, nonce) called on the client; draw is
\* what nacl.utils.random(32) returns when nonce is None
GenerateCommitment(amount, recipient, nonce, draw) ==
    LET used == IF nonce = "None" THEN draw ELSE nonce
    IN  /\ result' = IF to_bytes_overflows(amount, 8)
                     THEN [op |-> "generate_commitment", amount |-> amount,
                           recipient |-> recipient, nonce |-> nonce,
                           status |-> "OverflowError"]
                     ELSE [op |-> "generate_commitment", amount |-> amount,
                           recipient |-> recipient, nonce |-> nonce,
                           status |-> "ok",
                           value |-> generate_commitment(amount, recipient, used)]
        /\ UNCHANGED <<commitments, nullifiers, consumed, tasks, prev>>

\* generate_nullifier(commitment) called on the client
GenerateNullifier(commitment) ==
    /\ result' = [op |-> "generate_nullifier", commitment |-> commitment,
                  status |-> "ok", value |-> generate_nullifier(commitment)]
    /\ UNCHANGED <<commitments, nullifiers, consumed, tasks, prev>>

\* an observer keeps the outcome of a compute call to compare a later one with
Remember ==
    /\ result.op \in {"generate_commitment", "generate_nullifier"}
    /\ result.status = "ok"
    /\ prev' = result
    /\ UNCHANGED <<commitments, nullifiers, consumed, tasks, result>>

NextCompute ==
    \/ \E nonce \in Nonces : Deposit(500000000, nonce)
    \/ \E amount \in RequestAmounts, recipient \in Recipients : Withdraw(amount, recipient)
    \/ \E amount \in ComputeAmounts, recipient \in ComputeRecipients,
          nonce \in ComputeNonces, draw \in Nonces :
           GenerateCommitment(amount, recipient, nonce, draw)
    \/ \E commitment \in CommitmentDicts : GenerateNullifier(commitment)
    \/ GetPrivateBalance
    \/ Remember

SpecCompute == Init /\ [][NextCompute]_vars

(* ------------------------------------------- coroutines on the event loop *)
\* an awaited coroutine that gives control back to the event loop
AwaitYieldsToLoop == TRUE

\* await self.generate_nullifier(commitment): the awaited coroutine has no await
\* of its own, so it runs to its return and the event loop never gets control
generate_nullifier_yields == FALSE

\* the event loop runs one coroutine at a time: a task takes a step only while
\* every other task is outside a call or parked at an await that yields
MayRun(t) ==
    \A u \in Tasks \ {t} : tasks[u].pc = "idle" \/ generate_nullifier_yields

\* withdraw up to its await: the scan for a covering commitment
TaskCall(t, call, amount, recipient) ==
    /\ tasks[t].pc = "idle"
    /\ MayRun(t)
    /\ LET i == FirstFit(commitments, amount)
       IN  IF i = 0
           THEN /\ result' = Returned(call, "Insufficient balance")
                /\ UNCHANGED <<commitments, nullifiers, consumed, tasks, prev>>
           ELSE /\ tasks' = [tasks EXCEPT ![t] =
                                [pc |-> "await_generate_nullifier", call |-> call,
                                 commitment |-> commitments[i][2]]]
                /\ UNCHANGED <<commitments, nullifiers, consumed, result, prev>>

\* withdraw from its await on: the spent check, the add and the del
TaskResume(t) ==
    /\ tasks[t].pc = "await_generate_nullifier"
    /\ MayRun(t)
    /\ LET call == tasks[t].call
           commitment == tasks[t].commitment
           nullifier == generate_nullifier(commitment)
           nullifier_key == hex(nullifier.value)
       IN  /\ tasks' = [tasks EXCEPT ![t] = [pc |-> "idle"]]
           /\ IF IsSpent(nullifier_key, nullifiers)
              THEN /\ result' = Returned(call, "Commitment already spent")
                   /\ UNCHANGED <<commitments, nullifiers, consumed, prev>>
              ELSE /\ nullifiers' = MarkSpent(nullifiers, nullifier_key)
                   /\ IF hex(commitment.value) \in Keys(commitments)
                      THEN /\ commitments' = DictDel(commitments, hex(commitment.value))
                           /\ consumed' = consumed \cup {hex(commitment.value)}
                           /\ result' = Returned(call, "ok")
                      ELSE \* del of a missing key raises KeyError after the add
                           /\ result' = Returned(call, "KeyError")
                           /\ UNCHANGED <<commitments, consumed>>
                   /\ UNCHANGED prev

\* deposit called while no other coroutine holds the loop
TaskDeposit(amount, nonce) ==
    /\ \A u \in Tasks : tasks[u].pc = "idle" \/ generate_nullifier_yields
    /\ Deposit(amount, nonce)

AsyncDepositAmounts == {500000000, 1000000000}

NextAsync ==
    \/ \E amount \in AsyncDepositAmounts, nonce \in Nonces : TaskDeposit(amount, nonce)
    \/ \E t \in Tasks, amount \in RequestAmounts, recipient \in Recipients :
           TaskCall(t, [op |-> "withdraw", amount |-> amount], amount, recipient)
    \/ \E t \in Tasks, amount \in RequestAmounts, recipient \in Recipients :
           TaskCall(t, [op |-> "private_transfer", amount |-> amount, memo |-> "Coffee"],
                    amount, recipient)
    \/ \E t \in Tasks : TaskResume(t)

SpecAsync == Init /\ [][NextAsync]_vars

(* ------------------------------------- MoneroPrivacyClient (monero.py) *)
\* longest ring handed to create_ring_signature in the explored runs
MaxRing == 3

RingMembers == {[bytes |-> "ring_key_a"], [bytes |-> "ring_key_b"]}
RingPrivateKeys == {[bytes |-> "ring_secret_a"], [bytes |-> "ring_secret_b"]}
RingMessages == {[bytes |-> "transaction_data"]}

\* ring_public_keys: every list of at most MaxRing members
Rings == UNION {[1..n -> RingMembers] : n \in 0..MaxRing}

\* real_key_index: below zero, inside the ring, at and past its end
RingIndices == (0 - 2)..(MaxRing + 1)

\* list[index] of Python raises IndexError outside -len .. len - 1
PyIndexError(list, index) == index >= Len(list) \/ 0 - index > Len(list)

\* list[index] of Python, 0-based: a negative index counts from the end
PyIndex(list, index) ==
    IF index >= 0 THEN list[index + 1] ELSE list[Len(list) + index + 1]

\* create_ring_signature(message, real_key_index, private_key, ring_public_keys);
\* the random scalar lists c and r are kept by their lengths
CreateRingSignature(message, real_key_index, signer_key, ring_public_keys) ==
    LET ring_size == Len(ring_public_keys)
        status == IF real_key_index >= ring_size THEN "Invalid key index"
                  ELSE IF PyIndexError(ring_public_keys, real_key_index) THEN "IndexError"
                  ELSE "ok"
    IN  /\ result' =
               IF status # "ok"
               THEN [op |-> "create_ring_signature", message |-> message,
                     real_key_index |-> real_key_index, private_key |-> signer_key,
                     ring_public_keys |-> ring_public_keys, status |-> status]
               ELSE [op |-> "create_ring_signature", message |-> message,
                     real_key_index |-> real_key_index, private_key |-> signer_key,
                     ring_public_keys |-> ring_public_keys, status |-> "ok",
                     key_image |-> sha256_digest(
                         <<signer_key, PyIndex(ring_public_keys, real_key_index)>>),
                     c_len |-> ring_size, r_len |-> ring_size,
                     ring_members |-> ring_public_keys]
        /\ UNCHANGED <<commitments, nullifiers, consumed, tasks, prev>>

\* seed arguments of the constructor: None, empty bytes and two seeds
NoSeed == [none |-> "None"]
Seeds == {NoSeed, [bytes |-> ""], [bytes |-> "seed_a"], [bytes |-> "seed_b"]}

\* outcomes of nacl.signing.SigningKey.generate()
GeneratedKeys == {[random32 |-> "a"], [random32 |-> "b"]}

\* SigningKey(k).verify_key
verify_key(signing_key) == [ed25519_verify_key |-> signing_key]

\* the view key of both _generate_key_pair and _restore_from_seed
KeyPairOf(private_spend_key) ==
    LET private_view_key == sha256_digest(<<"view_key", private_spend_key>>)
    IN  [private_spend_key |-> private_spend_key,
         public_spend_key  |-> verify_key(private_spend_key),
         private_view_key  |-> private_view_key,
         public_view_key   |-> verify_key(private_view_key)]

\* _generate_key_pair(), generated being the fresh signing key
generate_key_pair(generated) == KeyPairOf(generated)

\* _restore_from_seed(seed)
restore_from_seed(seed) == KeyPairOf(sha256_digest(<<"spend", seed>>))

\* export_seed()
export_seed(key_pair) == sha256_digest(<<key_pair.private_spend_key>>)

\* get_primary_address()['address']
get_primary_address(key_pair) ==
    LET address_data == <<18, key_pair.public_spend_key, key_pair.public_view_key>>
        checksum == [first4 |-> sha256_digest(address_data)]
    IN  hex(address_data \o <<checksum>>)

\* MoneroPrivacyClient(seed): "if seed:" is false for None and for b''
MoneroKeyPair(seed, generated) ==
    IF seed = NoSeed \/ seed = [bytes |-> ""]
    THEN generate_key_pair(generated)
    ELSE restore_from_seed(seed)

\* k = MoneroPrivacyClient(seed)
NewMoneroClient(seed, generated) ==
    /\ result' = [op |-> "MoneroPrivacyClient", seed |-> seed,
                  key_pair |-> MoneroKeyPair(seed, generated)]
    /\ UNCHANGED <<commitments, nullifiers, consumed, tasks, prev>>

\* MoneroPrivacyClient(seed = k.export_seed()) for the client k just built
RestoreFromExport(generated) ==
    /\ result.op = "MoneroPrivacyClient"
    /\ result' = [op |-> "MoneroPrivacyClient(export_seed)",
                  original |-> result.key_pair,
                  seed |-> export_seed(result.key_pair),
                  key_pair |-> MoneroKeyPair(export_seed(result.key_pair), generated)]
    /\ UNCHANGED <<commitments, nullifiers, consumed, tasks, prev>>

NextMonero ==
    \/ \E message \in RingMessages, real_key_index \in RingIndices,
          signer_key \in RingPrivateKeys, ring_public_keys \in Rings :
           CreateRingSignature(message, real_key_index, signer_key, ring_public_keys)
    \/ \E seed \in Seeds, generated \in GeneratedKeys : NewMoneroClient(seed, generated)
    \/ \E generated \in GeneratedKeys : RestoreFromExport(generated)

SpecMonero == Init /\ [][NextMonero]_vars

(* ------------------------------------------------ vocabulary of the claims *)
SpendOps == {"withdraw", "private_transfer"}

\* the step just taken was a successful withdraw / private_transfer
SpendOk == result.op \in SpendOps /\ result.status = "ok"

\* the step just taken was a withdraw / private_transfer, whatever its outcome
SpendCall == result.op \in SpendOps

KeyOf(c) == hex(c.value)

NullifierKeyOf(c) == hex(generate_nullifier(c).value)

Amounts(cs) == {cs[i][2].amount : i \in 1..Len(cs)}

LedgerUnchanged == commitments' = commitments /\ nullifiers' = nullifiers

(* --------------------------------------------------------------------- C1 *)
\* C1: no double spend. A successful withdraw / private_transfer never consumes a
\* commitment key that an earlier successful one consumed; a call whose selected
\* commitment was consumed before ends with "Commitment already spent" and
\* leaves the ledger as it was.
NoDoubleSpend ==
    [][SpendCall' =>
         /\ SpendOk' =>
              /\ Cardinality(Keys(commitments) \ Keys(commitments')) = 1
              /\ (Keys(commitments) \ Keys(commitments')) \cap consumed = {}
         /\ LET i == FirstFit(commitments, result'.amount)
            IN  (i # 0 /\ commitments[i][1] \in consumed) =>
                    /\ result'.status = "Commitment already spent"
                    /\ LedgerUnchanged]_vars

\* a second attempt on a consumed commitment was refused
SecondSpendRefused ==
    /\ SpendCall
    /\ result.status = "Commitment already spent"
    /\ Keys(commitments) \cap consumed # {}

(* --------------------------------------------------------------------- C2 *)
\* C2: no open commitment has its nullifier in the spent set.
OpenNotNullified ==
    \A i \in 1..Len(commitments) : NullifierKeyOf(commitments[i][2]) \notin nullifiers

(* --------------------------------------------------------------------- C3 *)
\* C3: the spent set is append-only: no step of any operation removes a nullifier.
NullifiersAppendOnly == [][nullifiers \subseteq nullifiers']_vars

\* nullifiers were recorded and other operations, failed ones included, followed
NullifiersKeptAfterLaterOps ==
    /\ Cardinality(nullifiers) >= 2
    /\ result.op = "generate_balance_proof"
    /\ result.status = "Insufficient balance"

(* --------------------------------------------------------------------- C4 *)
\* C4: a successful deposit raises the balance by exactly its amount, adds exactly
\* one open commitment and leaves the other commitments and the spent set alone.
DepositAddsAmount ==
    [][(result'.op = "deposit" /\ result'.status = "ok") =>
         /\ get_private_balance(commitments') =
                get_private_balance(commitments) + result'.amount
         /\ Len(commitments') = Len(commitments) + 1
         /\ SubSeq(commitments', 1, Len(commitments)) = commitments
         /\ nullifiers' = nullifiers]_vars

(* --------------------------------------------------------------------- C5 *)
\* C5: a successful withdraw removes exactly the one commitment it matched, adds
\* exactly that commitment's nullifier, creates no commitment, and lowers the
\* balance by the commitment's whole amount, which covers the requested one.
WithdrawConsumesWhole ==
    [][SpendOk' =>
         \E i \in 1..Len(commitments) :
             LET c == commitments[i][2]
             IN  /\ c.amount >= result'.amount
                 /\ commitments' =
                        SubSeq(commitments, 1, i - 1) \o
                        SubSeq(commitments, i + 1, Len(commitments))
                 /\ NullifierKeyOf(c) \notin nullifiers
                 /\ nullifiers' = nullifiers \cup {NullifierKeyOf(c)}
                 /\ get_private_balance(commitments') =
                        get_private_balance(commitments) - c.amount]_vars

\* a withdraw of 500_000_000 consumed a lone 1_000_000_000 commitment: the
\* remainder is gone
RemainderForfeited ==
    /\ SpendOk
    /\ result.amount = 500000000
    /\ commitments = << >>
    /\ \E n \in Nonces :
           consumed = {KeyOf(generate_commitment(1000000000, get_ghost_identifier, n))}

(* --------------------------------------------------------------------- C6 *)
\* C6: a withdraw of X with no single open commitment of amount >= X ends with
\* "Insufficient balance" and leaves the ledger as it was, whatever the sum is.
InsufficientBoundary ==
    [][(SpendCall' /\ \A a \in Amounts(commitments) : a < result'.amount) =>
         /\ result'.status = "Insufficient balance"
         /\ LedgerUnchanged]_vars

\* refused although the open commitments together cover the amount
RefusedThoughSumCovers ==
    /\ SpendCall
    /\ result.status = "Insufficient balance"
    /\ Len(commitments) >= 2
    /\ get_private_balance(commitments) >= result.amount

(* --------------------------------------------------------------------- C7 *)
\* C7: a successful withdraw consumes the earliest-inserted open commitment that
\* covers the amount: nothing before the consumed one covers it.
FirstFitSelection ==
    [][SpendOk' =>
         \E i \in 1..Len(commitments) :
             /\ Keys(commitments) \ Keys(commitments') = {commitments[i][1]}
             /\ commitments[i][2].amount >= result'.amount
             /\ \A j \in 1..(i - 1) : commitments[j][2].amount < result'.amount]_vars

\* the exact-fit commitment stayed open: the earlier, larger one was consumed
EarlierLargerConsumed ==
    /\ SpendOk
    /\ Len(commitments) = 1
    /\ commitments[1][2].amount = result.amount
    /\ \E n \in Nonces :
           consumed = {KeyOf(generate_commitment(1000000000, get_ghost_identifier, n))}

(* --------------------------------------------------------------------- C8 *)
\* the ledger after deposit 1_000_000_000 then deposit 500_000_000 on a fresh client
ScenarioDeposited ==
    /\ nullifiers = {}
    /\ Len(commitments) = 2
    /\ commitments[1][2].amount = 1000000000
    /\ commitments[2][2].amount = 500000000

ScenarioWithdraw == ScenarioDeposited /\ result'.op = "withdraw" /\ result'.amount = 500000000

\* C8 as stated: the withdraw of 500_000_000 consumes the 500_000_000 commitment and
\* leaves a balance of 1_000_000_000.
ScenarioAsStated ==
    [][ScenarioWithdraw =>
         /\ get_private_balance(commitments) = 1500000000
         /\ result'.status = "ok"
         /\ Keys(commitments) \ Keys(commitments') = {commitments[2][1]}
         /\ get_private_balance(commitments') = 1000000000]_vars

\* C8: after deposit 1_000_000_000 then deposit 500_000_000 the balance is
\* 1_500_000_000; the withdraw of 500_000_000 succeeds, consumes the first-inserted
\* 1_000_000_000 commitment and leaves a balance of 500_000_000.
ScenarioFirstFit ==
    [][ScenarioWithdraw =>
         /\ get_private_balance(commitments) = 1500000000
         /\ result'.status = "ok"
         /\ Keys(commitments) \ Keys(commitments') = {commitments[1][1]}
         /\ get_private_balance(commitments') = 500000000]_vars

\* the scenario has run to its end
ScenarioDone ==
    /\ result.op = "withdraw"
    /\ result.amount = 500000000
    /\ result.status = "ok"
    /\ Cardinality(nullifiers) = 1
    /\ Len(commitments) = 1
    /\ get_private_balance(commitments) = 500000000

(* --------------------------------------------------------------------- C9 *)
\* C9: a deposit whose commitment key is already open fails with
\* DuplicateCommitment and leaves the ledger as it was.
DuplicateDepositRejected ==
    [][\A amount \in DepositAmounts, nonce \in Nonces :
         (/\ ~to_bytes_overflows(amount, 8)
          /\ KeyOf(generate_commitment(amount, get_ghost_identifier, nonce))
                 \in Keys(commitments)
          /\ Deposit(amount, nonce)) =>
             /\ result'.status = "DuplicateCommitment"
             /\ LedgerUnchanged]_vars

(* -------------------------------------------------------------------- C10 *)
\* C10: no open commitment has an amount <= 0.
OpenAmountsPositive == \A a \in Amounts(commitments) : a > 0

(* -------------------------------------------------------------------- C11 *)
\* C11: generate_balance_proof(B) succeeds exactly when the balance is >= B and
\* fails with "Insufficient balance" otherwise (from B = balance + 1 upward); on
\* success the public signals are <<B>> alone; the ledger is never changed.
ProofThreshold ==
    [][result'.op = "generate_balance_proof" =>
         /\ LedgerUnchanged
         /\ result'.status \in {"ok", "Insufficient balance"}
         /\ result'.status = "ok" <=> get_private_balance(commitments) >= result'.amount
         /\ result'.status = "ok" => result'.public_signals = <<result'.amount>>]_vars

\* a proof was given for the whole balance of a non-empty ledger
ProofAtExactBalance ==
    /\ result.op = "generate_balance_proof"
    /\ result.status = "ok"
    /\ result.amount > 0
    /\ result.amount = get_private_balance(commitments)

(* -------------------------------------------------------------------- C12 *)
\* C12: when the earliest open commitment covering the amount has its nullifier
\* recorded, withdraw fails with "Commitment already spent", whatever other open
\* commitments there are, and leaves the ledger as it was.
AlreadySpentNoFallback ==
    [][SpendCall' =>
         \A i \in 1..Len(commitments) :
             (/\ commitments[i][2].amount >= result'.amount
              /\ \A j \in 1..(i - 1) : commitments[j][2].amount < result'.amount
              /\ NullifierKeyOf(commitments[i][2]) \in nullifiers) =>
                 /\ result'.status = "Commitment already spent"
                 /\ LedgerUnchanged]_vars

\* refused although a later open commitment, not yet spent, covers the amount
RefusedThoughLaterUnspentCovers ==
    /\ SpendCall
    /\ result.status = "Commitment already spent"
    /\ \E i \in 1..Len(commitments) :
           /\ commitments[i][2].amount >= result.amount
           /\ NullifierKeyOf(commitments[i][2]) \notin nullifiers

(* -------------------------------------------------------------------- C13 *)
\* C13: a withdraw runs from its scan to its del without another coroutine
\* running in between: at most one task is ever inside withdraw, the commitment a
\* task selected is still open when the task goes on, two tasks never both
\* succeed on one commitment, and a successful task leaves its commitment closed
\* and its nullifier recorded.
WithdrawAtomic ==
    [][/\ Cardinality({t \in Tasks : tasks'[t].pc # "idle"}) <= 1
       /\ \A t \in Tasks :
              (tasks[t].pc # "idle" /\ tasks'[t].pc = "idle") =>
                  LET c == tasks[t].commitment
                  IN  /\ KeyOf(c) \in Keys(commitments)
                      /\ result'.status \in {"ok", "Commitment already spent"}
                      /\ result'.status = "ok" =>
                             /\ KeyOf(c) \notin consumed
                             /\ KeyOf(c) \notin Keys(commitments')
                             /\ NullifierKeyOf(c) \in nullifiers']_vars

\* the second task is inside withdraw after a withdraw of the first has succeeded
SecondTaskInsideWithdraw ==
    /\ tasks["task_b"].pc = "await_generate_nullifier"
    /\ tasks["task_a"].pc = "idle"
    /\ SpendOk
    /\ consumed # {}

(* -------------------------------------------------------------------- C14 *)
ComputeOps == {"generate_commitment", "generate_nullifier", "get_private_balance"}

\* C14: generate_commitment, generate_nullifier and get_private_balance leave
\* the open commitments and the spent set as they were; generate_nullifier
\* returns a nullifier whether or not it is already recorded.
ComputeLeavesLedger ==
    [][result'.op \in ComputeOps =>
         /\ LedgerUnchanged
         /\ result'.op = "generate_nullifier" => result'.status = "ok"]_vars

\* a nullifier was derived for a spent commitment and a commitment was computed
\* before that without being recorded
NullifierDerivedForSpent ==
    /\ result.op = "generate_nullifier"
    /\ hex(result.value.value) \in nullifiers
    /\ prev.op = "generate_commitment"
    /\ KeyOf(prev.value) \notin Keys(commitments) \cup consumed

WithdrawOutcome(cs, nulls, amount) ==
    LET fit == {i \in 1..Len(cs) : cs[i][2].amount >= amount}
    IN  IF fit = {}
        THEN [commitments |-> cs, nullifiers |-> nulls, status |-> "Insufficient balance"]
        ELSE LET i == CHOOSE k \in fit : \A j \in fit : k <= j
                 nk == NullifierKeyOf(cs[i][2])
             IN  IF nk \in nulls
                 THEN [commitments |-> cs, nullifiers |-> nulls,
                       status |-> "Commitment already spent"]
                 ELSE [commitments |-> SubSeq(cs, 1, i - 1) \o SubSeq(cs, i + 1, Len(cs)),
                       nullifiers |-> nulls \cup {nk},
                       status |-> "ok"]

RingIndexValidated ==
    result.op = "create_ring_signature" =>
        LET index == result.real_key_index
            ring == result.ring_public_keys
        IN  IF 0 <= index /\ index < Len(ring)
            THEN /\ result.status = "ok"
                 /\ result.key_image = sha256_digest(<<result.private_key, ring[index + 1]>>)
            ELSE result.status = "Invalid key index"

(* -------------------------------------------------------------------- C18 *)
\* C18, step by step from the empty ledger: a successful deposit raises
\* (open commitments + spent nullifiers) by one and leaves the spent set; a
\* successful withdraw / private_transfer changes the two sizes by -1 and +1;
\* no other step changes either size; the spent set is as large as the set of
\* commitments consumed by successful withdrawals.
CountingSteps ==
    [][/\ Cardinality(nullifiers') = Cardinality(consumed')
       /\ IF result'.op = "deposit" /\ result'.status = "ok"
          THEN /\ Len(commitments') = Len(commitments) + 1
               /\ Cardinality(nullifiers') = Cardinality(nullifiers)
          ELSE IF SpendOk'
          THEN /\ Len(commitments') = Len(commitments) - 1
               /\ Cardinality(nullifiers') = Cardinality(nullifiers) + 1
          ELSE /\ Len(commitments') = Len(commitments)
               /\ Cardinality(nullifiers') = Cardinality(nullifiers)]_vars

(* -------------------------------------------------------------------- C19 *)
\* C19, in the form a finite run refutes: a withdraw of A is refused only with
\* "Insufficient balance" and only when no open commitment has amount >= A, so
\* repeated requests consume every covering commitment and then fail that way.
DrainNeverBlocked ==
    [][(SpendCall' /\ result'.status # "ok") =>
         /\ result'.status = "Insufficient balance"
         /\ \A a \in Amounts(commitments) : a < result'.amount]_vars

(* -------------------------------------------------------------------- C20 *)
\* C20: a client built from export_seed() of a client k has k's key pair and
\* primary address, its view key being the hash of its spend key.
SeedRoundTrip ==
    result.op = "MoneroPrivacyClient(export_seed)" =>
        /\ result.key_pair = result.original
        /\ get_primary_address(result.key_pair) = get_primary_address(result.original)
        /\ result.key_pair.private_view_key =
               sha256_digest(<<"view_key", result.key_pair.private_spend_key>>)

====
